---- MODULE Spec2Model ----
(***************************************************************************)
(* Model of the dataset ingestion worker, fc_worker/main.py:               *)
(* process_dataset and the functions it calls, over a document store       *)
(* (collections datasets and images) and a blob store.                     *)
(***************************************************************************)
EXTENDS Integers, Sequences, FiniteSets, TLC

(***************************************************************************)
(* Bounds and program constants                                            *)
(***************************************************************************)

\* Number of process_dataset runs the model holds.
NumRuns == 2

\* error_msg = str(e)[:500]
ErrLimit == 500

\* len(parts) >= 5
MinParts == 5

\* dataset_id = object_key.split("/")[1] (zero-based index 1)
IdIndex == 1

\* result.status == 200
StatusOk == 200

Runs == 1..NumRuns

Min(a, b) == IF a <= b THEN a ELSE b

(***************************************************************************)
(* Strings.  A string is a sequence of atoms; an atom is an indivisible    *)
(* piece of text.  Separators ("/", whitespace) and file suffixes are      *)
(* atoms of their own, so that splitting, suffix extraction and substring  *)
(* replacement are computed on the sequence.                               *)
(***************************************************************************)

RECURSIVE SplitOn(_, _, _)
\* str.split(sep): the segments of s between occurrences of sep; cur is the
\* segment being read.  "a/b" gives two segments, "a" gives one.
SplitOn(s, sep, cur) ==
    IF s = <<>> THEN <<cur>>
    ELSE IF Head(s) = sep THEN <<cur>> \o SplitOn(Tail(s), sep, <<>>)
    ELSE SplitOn(Tail(s), sep, Append(cur, Head(s)))

StrSplit(s, sep) == SplitOn(s, sep, <<>>)

\* object_key.split("/")[1]: defined only when the key has a second segment.
HasDatasetId(key) == Len(StrSplit(key, "/")) > IdIndex

DatasetIdOf(key) == StrSplit(key, "/")[IdIndex + 1]

\* object_key.split("/")[-1]
LastSegment(key) == LET segs == StrSplit(key, "/") IN segs[Len(segs)]

(***************************************************************************)
(* Paths and the extracted tree.  A name is a string (a sequence of        *)
(* atoms), a path is a sequence of names below the extraction directory.   *)
(* A tree maps each existing path to its node.                             *)
(***************************************************************************)

NonEmpty(x) == x # <<>>

\* pathlib.Path(text): the components of the text, empty components
\* (doubled or trailing separators) dropped.
PathParts(text) == SelectSeq(StrSplit(text, "/"), NonEmpty)

\* Path(img_rel_path).is_absolute()
IsAbsolute(text) == text # <<>> /\ Head(text) = "/"

\* A location is a path either below the extraction directory (abs = FALSE)
\* or on the host outside it (abs = TRUE).
Below(parts) == [abs |-> FALSE, parts |-> parts]

\* root_path / img_rel_path if not absolute else Path(img_rel_path)
ResolveImgDir(root, text) ==
    IF IsAbsolute(text) THEN [abs |-> TRUE, parts |-> PathParts(text)]
    ELSE Below(root \o PathParts(text))

\* str.replace("images", "labels") on one atom.
ReplaceAtom(a) == IF a = "images" THEN "labels" ELSE a

ReplaceName(n) == [i \in 1..Len(n) |-> ReplaceAtom(n[i])]

\* Path(str(img_dir).replace("images", "labels")): every occurrence in every
\* component of the path is replaced.
LabelDirOf(loc) ==
    [abs |-> loc.abs, parts |-> [i \in 1..Len(loc.parts) |-> ReplaceName(loc.parts[i])]]

\* Atoms that are file suffixes.
SuffixAtoms == {".jpg", ".jpeg", ".png", ".JPG", ".PNG", ".txt", ".yaml"}

\* Path.suffix: the last dot-part of the final component, "" when none.
Suffix(n) == IF Len(n) >= 2 /\ n[Len(n)] \in SuffixAtoms THEN n[Len(n)] ELSE ""

\* Path.stem: the final component without its suffix.
Stem(n) == IF Suffix(n) = "" THEN n ELSE SubSeq(n, 1, Len(n) - 1)

\* str.lower() on a suffix.
Lower(x) ==
    CASE x = ".JPG" -> ".jpg"
      [] x = ".PNG" -> ".png"
      [] OTHER -> x

\* img_path.suffix.lower() in [".jpg", ".jpeg", ".png"]
ImageSuffixes == {".jpg", ".jpeg", ".png"}

\* label_dir / (img_path.stem + ".txt")
LabelPathOf(labelDir, name) ==
    [abs |-> labelDir.abs, parts |-> Append(labelDir.parts, Append(Stem(name), ".txt"))]

\* Nodes of a tree.
Dir(list) == [kind |-> "dir", list |-> list, data |-> [t |-> "none"]]

File(data) == [kind |-> "file", list |-> <<>>, data |-> data]

ImageData(w, h) == [t |-> "image", w |-> w, h |-> h]

JunkData == [t |-> "junk"]

TextData(lines) == [t |-> "text", lines |-> lines]

YamlData(doc) == [t |-> "yaml", doc |-> doc]

YamlEmpty == [t |-> "yamlnone"]

YamlBad == [t |-> "yamlbad"]

\* Path.exists(): nothing outside the extraction directory exists for the job.
Exists(tree, loc) == ~loc.abs /\ loc.parts \in DOMAIN tree

\* Path.is_dir()
IsDir(tree, loc) == Exists(tree, loc) /\ tree[loc.parts].kind = "dir"

\* Path.iterdir(): the children in directory-listing order.
IterDir(tree, loc) ==
    LET l == tree[loc.parts].list
    IN [i \in 1..Len(l) |-> [abs |-> loc.abs, parts |-> Append(loc.parts, l[i])]]

\* Path.name
NameOf(loc) == loc.parts[Len(loc.parts)]

ManifestName == <<"data", ".yaml">>

\* extract_path / "data.yaml"
ManifestIn(loc) == [abs |-> loc.abs, parts |-> Append(loc.parts, ManifestName)]

(***************************************************************************)
(* find_dataset_root                                                       *)
(***************************************************************************)

ExtractRoot == Below(<<>>)

RECURSIVE FirstChildWithManifest(_, _, _)
\* for item in extract_path.iterdir():
\*     if item.is_dir() and (item / "data.yaml").exists(): return str(item)
FirstChildWithManifest(tree, items, i) ==
    IF i > Len(items) THEN [found |-> FALSE, root |-> <<>>]
    ELSE IF IsDir(tree, items[i]) /\ Exists(tree, ManifestIn(items[i]))
         THEN [found |-> TRUE, root |-> items[i].parts]
         ELSE FirstChildWithManifest(tree, items, i + 1)

\* Variant of find_dataset_root: the child directories are searched without
\* looking at the extraction directory first.
find_dataset_root_ChildrenOnly(tree) ==
    FirstChildWithManifest(tree, IterDir(tree, ExtractRoot), 1)

\* found = FALSE stands for raise FileNotFoundError.
find_dataset_root(tree) ==
    IF Exists(tree, ManifestIn(ExtractRoot))
    THEN [found |-> TRUE, root |-> ExtractRoot.parts]
    ELSE FirstChildWithManifest(tree, IterDir(tree, ExtractRoot), 1)

(***************************************************************************)
(* Label files                                                             *)
(***************************************************************************)

Whitespace == {" ", "\n"}

NotWhitespace(a) == a \notin Whitespace

\* line.strip().split(): the tokens of the line, a token being one atom.
SplitWs(line) == SelectSeq(line, NotWhitespace)

\* int(text): the texts int() accepts and their values.
IntOf == ("0" :> 0) @@ ("1" :> 1) @@ ("2" :> 2) @@ ("+1" :> 1) @@ ("07" :> 7)

\* float(text): the texts float() accepts and the value's repr.
FloatOf ==
    ("0" :> "0.0") @@ ("1" :> "1.0") @@ ("2" :> "2.0") @@ ("+1" :> "1.0")
    @@ ("07" :> "7.0") @@ ("0.5" :> "0.5") @@ (".5" :> "0.5") @@ ("0.2" :> "0.2")
    @@ ("0.3" :> "0.3") @@ ("1e-1" :> "0.1") @@ ("nan" :> "nan") @@ ("1.5" :> "1.5")

\* Variant of LineParses: a line with more than five tokens is rejected.
LineParses_ExactlyFive(parts) ==
    /\ Len(parts) = MinParts
    /\ parts[1] \in DOMAIN IntOf
    /\ \A i \in 2..5 : parts[i] \in DOMAIN FloatOf

\* len(parts) >= 5 and no ValueError from int(parts[0]), float(parts[1..4])
LineParses(parts) ==
    /\ Len(parts) >= MinParts
    /\ parts[1] \in DOMAIN IntOf
    /\ \A i \in 2..5 : parts[i] \in DOMAIN FloatOf

\* The records one line contributes: one, or none when it is skipped.
ParseLine(line) ==
    LET parts == SplitWs(line)
    IN IF LineParses(parts)
       THEN << [class_id |-> IntOf[parts[1]],
                bbox |-> [i \in 1..4 |-> FloatOf[parts[i + 1]]]] >>
       ELSE <<>>

RECURSIVE ParseLines(_)
\* for line in lf: ... annotations.append(...)
ParseLines(lines) ==
    IF lines = <<>> THEN <<>>
    ELSE ParseLine(Head(lines)) \o ParseLines(Tail(lines))

\* The annotation step of one image: label_path.exists(), open(), the line
\* loop.  raised # "" is the exception that escapes the step.
ReadLabels(tree, labelPath) ==
    IF ~Exists(tree, labelPath) THEN [raised |-> "", annotations |-> <<>>]
    ELSE IF tree[labelPath.parts].kind = "dir"
         THEN [raised |-> "IsADirectoryError", annotations |-> <<>>]
    ELSE IF tree[labelPath.parts].data.t = "text"
         THEN [raised |-> "", annotations |-> ParseLines(tree[labelPath.parts].data.lines)]
    ELSE [raised |-> "UnicodeDecodeError", annotations |-> <<>>]

(***************************************************************************)
(* Image dimensions                                                        *)
(***************************************************************************)

\* width, height = 0, 0; try: Image.open(...).size; except Exception: pass
ReadDimensions(node) ==
    IF node.data.t = "image" THEN <<node.data.w, node.data.h>> ELSE <<0, 0>>

(***************************************************************************)
(* The archives a job may be handed.  Each is the tree its extraction      *)
(* leaves in the scratch directory.                                        *)
(***************************************************************************)

N(a) == <<a>>

Jpg(a) == <<a, ".jpg">>

Txt(a) == <<a, ".txt">>

ImagesTrain == <<N("images"), N("train")>>

ImagesVal == <<N("images"), N("val")>>

LabelsTrain == <<N("labels"), N("train")>>

LabelsVal == <<N("labels"), N("val")>>

GoodLine == <<"2", " ", "0.5", " ", "0.5", " ", "0.2", " ", "0.3", "\n">>

ShortLine == <<"2", " ", "0.5", " ", "0.5", "\n">>

WordLine == <<"cat", " ", "0.5", " ", "0.5", " ", "0.2", " ", "0.3", "\n">>

LongLine == <<" ", "07", " ", ".5", " ", "1", " ", "1e-1", " ", "nan", " ", "extra", "\n">>

FloatIdLine == <<"1.5", " ", "0.5", " ", "0.5", " ", "0.2", " ", "0.3", "\n">>

BadBoxLine == <<"1", " ", "0.5", " ", "wide", " ", "0.2", " ", "0.3", "\n">>

BlankLine == <<"\n">>

\* Manifest at depth 0; train has two images, a text file and a directory;
\* test is declared and missing; val is undeclared and present.
FlatTree ==
    (<<>> :> Dir(<<ManifestName, N("images"), N("labels")>>))
    @@ (<<ManifestName>> :> File(YamlData(
            [nc |-> 2, names |-> <<"cat", "dog">>,
             train |-> <<"images", "/", "train">>,
             test |-> <<"images", "/", "test">>])))
    @@ (<<N("images")>> :> Dir(<<N("train"), N("val")>>))
    @@ (ImagesTrain :> Dir(<<Jpg("a"), <<"b", ".PNG">>, Txt("notes"), N("sub")>>))
    @@ (Append(ImagesTrain, Jpg("a")) :> File(ImageData(640, 480)))
    @@ (Append(ImagesTrain, <<"b", ".PNG">>) :> File(JunkData))
    @@ (Append(ImagesTrain, Txt("notes")) :> File(TextData(<<GoodLine>>)))
    @@ (Append(ImagesTrain, N("sub")) :> Dir(<<>>))
    @@ (ImagesVal :> Dir(<<Jpg("v")>>))
    @@ (Append(ImagesVal, Jpg("v")) :> File(ImageData(32, 32)))
    @@ (<<N("labels")>> :> Dir(<<N("train")>>))
    @@ (LabelsTrain :> Dir(<<Txt("a")>>))
    @@ (Append(LabelsTrain, Txt("a")) :> File(TextData(
            <<GoodLine, ShortLine, WordLine, BlankLine, LongLine, FloatIdLine,
              BadBoxLine>>)))

\* Manifest one level down, after a child without one; train and val each
\* hold a file of the same name; no nc and no names.
WrappedTree ==
    (<<>> :> Dir(<<N("__MACOSX"), N("ds")>>))
    @@ (<<N("__MACOSX")>> :> Dir(<<>>))
    @@ (<<N("ds")>> :> Dir(<<ManifestName, N("images"), N("labels")>>))
    @@ (<<N("ds"), ManifestName>> :> File(YamlData(
            [train |-> <<"images", "/", "train">>,
             val |-> <<"images", "/", "val", "/">>])))
    @@ (<<N("ds"), N("images")>> :> Dir(<<N("val"), N("train")>>))
    @@ (<<N("ds")>> \o ImagesTrain :> Dir(<<<<"x", ".jpeg">>>>))
    @@ (<<N("ds")>> \o ImagesTrain \o <<<<"x", ".jpeg">>>> :> File(ImageData(100, 50)))
    @@ (<<N("ds")>> \o ImagesVal :> Dir(<<<<"x", ".jpeg">>>>))
    @@ (<<N("ds")>> \o ImagesVal \o <<<<"x", ".jpeg">>>> :> File(ImageData(10, 20)))
    @@ (<<N("ds"), N("labels")>> :> Dir(<<N("val")>>))
    @@ (<<N("ds")>> \o LabelsVal :> Dir(<<Txt("x")>>))
    @@ (<<N("ds")>> \o LabelsVal \o <<Txt("x")>> :> File(TextData(<<LongLine>>)))

\* train and val declare the same directory; test declares a host path.
SharedTree ==
    (<<>> :> Dir(<<N("images"), ManifestName>>))
    @@ (<<ManifestName>> :> File(YamlData(
            [nc |-> 1, names |-> <<"cat">>,
             train |-> <<"images">>, val |-> <<"images">>,
             test |-> <<"/", "data", "/", "images">>])))
    @@ (<<N("images")>> :> Dir(<<<<"p", ".png">>>>))
    @@ (<<N("images"), <<"p", ".png">>>> :> File(ImageData(8, 8)))

\* Manifest two levels down.
DeepTree ==
    (<<>> :> Dir(<<N("outer")>>))
    @@ (<<N("outer")>> :> Dir(<<N("inner")>>))
    @@ (<<N("outer"), N("inner")>> :> Dir(<<ManifestName>>))
    @@ (<<N("outer"), N("inner"), ManifestName>> :> File(YamlData([nc |-> 0])))

\* Manifest that is not well-formed.
BadYamlTree ==
    (<<>> :> Dir(<<ManifestName>>))
    @@ (<<ManifestName>> :> File(YamlBad))

\* Manifest that is an empty document.
NoneYamlTree ==
    (<<>> :> Dir(<<ManifestName>>))
    @@ (<<ManifestName>> :> File(YamlEmpty))

\* Manifest that declares no split.
EmptyTree ==
    (<<>> :> Dir(<<ManifestName>>))
    @@ (<<ManifestName>> :> File(YamlData([nc |-> 1, names |-> <<"cat">>])))

\* The label file of the second image is not text.
BadLabelTree ==
    (<<>> :> Dir(<<ManifestName, N("images"), N("labels")>>))
    @@ (<<ManifestName>> :> File(YamlData(
            [nc |-> 1, names |-> <<"cat">>, train |-> <<"images", "/", "train">>])))
    @@ (<<N("images")>> :> Dir(<<N("train")>>))
    @@ (ImagesTrain :> Dir(<<Jpg("a"), Jpg("b")>>))
    @@ (Append(ImagesTrain, Jpg("a")) :> File(ImageData(640, 480)))
    @@ (Append(ImagesTrain, Jpg("b")) :> File(ImageData(640, 480)))
    @@ (<<N("labels")>> :> Dir(<<N("train")>>))
    @@ (LabelsTrain :> Dir(<<Txt("b")>>))
    @@ (Append(LabelsTrain, Txt("b")) :> File(JunkData))

\* Manifest at depth 0 and another one in a child directory.
BothTree ==
    (<<>> :> Dir(<<N("ds"), ManifestName>>))
    @@ (<<ManifestName>> :> File(YamlData([nc |-> 2, names |-> <<"cat", "dog">>])))
    @@ (<<N("ds")>> :> Dir(<<ManifestName>>))
    @@ (<<N("ds"), ManifestName>> :> File(YamlData([nc |-> 1, names |-> <<"cat">>])))

\* train declares a path that is a file.
NotDirTree ==
    (<<>> :> Dir(<<ManifestName>>))
    @@ (<<ManifestName>> :> File(YamlData([train |-> ManifestName])))

ArchiveNames ==
    {"flat", "wrapped", "shared", "deep", "corrupt", "badyaml", "noneyaml", "empty",
     "badlabel", "notdir", "both"}

\* zipfile.ZipFile(zip_path, "r") raises on bytes that are no archive.
IsZip(a) == a # "corrupt"

\* The tree zf.extractall(extract_dir) leaves.
TreeOf(a) ==
    CASE a = "flat" -> FlatTree
      [] a = "wrapped" -> WrappedTree
      [] a = "shared" -> SharedTree
      [] a = "deep" -> DeepTree
      [] a = "badyaml" -> BadYamlTree
      [] a = "noneyaml" -> NoneYamlTree
      [] a = "empty" -> EmptyTree
      [] a = "badlabel" -> BadLabelTree
      [] a = "notdir" -> NotDirTree
      [] a = "both" -> BothTree
      [] OTHER -> (<<>> :> Dir(<<>>))

(***************************************************************************)
(* Exceptions and the stores                                               *)
(***************************************************************************)

\* len(str(e)) of the exceptions the stages raise; the texts of the store
\* and blob-store errors carry the server's full reply.
MsgLen(type) ==
    CASE type \in {"OssError", "BulkWriteError", "ServerSelectionTimeoutError"} -> 900
      [] type = "DuplicateKeyError" -> 240
      [] OTHER -> 40

\* An exception: its class, the stage whose code raised it (its traceback)
\* and its message str(e), a text and its length.
ExcOf(type, where) ==
    [type |-> type, where |-> where, msg |-> [text |-> type, len |-> MsgLen(type)]]

NoExc == [type |-> "", where |-> "", msg |-> [text |-> "", len |-> 0]]

\* str(e)[:500]: the first 500 characters of the message.
Truncate(msg) == [text |-> msg.text, len |-> Min(msg.len, ErrLimit)]

\* datetime.utcnow()
UtcNow == "utcnow"

\* The document insert_one writes in begin().
ProcessingDoc(name) == [name |-> name, status |-> "processing", created_at |-> UtcNow]

\* The $set of complete().
ReadySet(doc) ==
    [status |-> "ready", nc |-> doc.nc, names |-> doc.names, splits |-> doc.splits,
     processed_at |-> UtcNow]

\* Variant of FailedSet: the error message is not recorded.
FailedSet_NoError(e) == [status |-> "failed"]

\* The $set of fail().
FailedSet(e) == [status |-> "failed", error |-> Truncate(e.msg)]

\* update_one({"_id": id}, {"$set": fields}, upsert): the fields replace or
\* extend those of the document; a missing document is created only on upsert.
UpdateOne(coll, id, fields, upsert) ==
    IF id \in DOMAIN coll THEN [coll EXCEPT ![id] = fields @@ @]
    ELSE IF upsert THEN (id :> fields) @@ coll
    ELSE coll

\* Variant of OssKey: the key does not carry the dataset_id.
OssKey_NoId(id, filename) == <<"datasets", "/", "images", "/">> \o filename

\* f"datasets/{dataset_id}/images/{filename}"
OssKey(id, filename) == <<"datasets", "/">> \o id \o <<"/", "images", "/">> \o filename

\* What bucket.put_object_from_file can do: a reply with a status, or an
\* exception; stored tells whether the object was written.
UploadOutcomes ==
    {[reply |-> "status", status |-> 200, stored |-> TRUE],
     [reply |-> "status", status |-> 203, stored |-> TRUE],
     [reply |-> "OssError", status |-> 0, stored |-> FALSE],
     [reply |-> "Exception", status |-> 0, stored |-> FALSE]}

\* Variant of upload_image_to_oss: the put is made outside any try block.
upload_image_to_oss_NoTry(o) ==
    [raised |-> IF o.reply = "status" THEN "" ELSE o.reply,
     returns |-> o.reply = "status" /\ o.status = StatusOk]

\* upload_image_to_oss under outcome o of the put: every exception of the put
\* is caught, so nothing is raised, and the value returned tells whether the
\* reply had status 200.
upload_image_to_oss(o) ==
    [raised |-> "", returns |-> o.reply = "status" /\ o.status = StatusOk]

\* One image document of image_docs.
ImageDoc(id, name, split, dims, annotations) ==
    [dataset_id |-> id, filename |-> name, split |-> split, width |-> dims[1],
     height |-> dims[2], annotations |-> annotations]

SplitNames == <<"train", "val", "test">>

(***************************************************************************)
(* Inputs: the archive keys and file names the trigger hands over, and     *)
(* what the stores hold when a job starts.                                 *)
(***************************************************************************)

Keys ==
    {<<"uploads", "/", "a", "/", "ds.zip">>,
     <<"uploads", "/", "b", "/", "ds.zip">>,
     <<"x", "/", "a">>,
     <<"ds.zip">>}

Filenames == {<<"ds.zip">>, <<"my.zip">>}

IdA == <<"a">>

OldImage == ImageDoc(IdA, Jpg("old"), "train", <<640, 480>>, <<>>)

\* Nothing stored; or dataset a left ready, failed or processing by an
\* earlier job.
PriorStores ==
    {[datasets |-> <<>>, images |-> <<>>, blobs |-> <<>>],
     [datasets |-> (IdA :> (ReadySet([nc |-> 1, names |-> <<"cat">>, splits |-> <<"train">>])
                            @@ ProcessingDoc(<<"old.zip">>))),
      images |-> <<OldImage>>,
      blobs |-> (OssKey(IdA, Jpg("old")) :> ImageData(640, 480))],
     [datasets |-> (IdA :> (FailedSet(ExcOf("BadZipFile", "extract")) @@ ProcessingDoc(<<"old.zip">>))),
      images |-> <<>>, blobs |-> <<>>],
     [datasets |-> (IdA :> ProcessingDoc(<<"old.zip">>)),
      images |-> <<>>, blobs |-> <<>>]}

(***************************************************************************)
(* State                                                                   *)
(***************************************************************************)

VARIABLES
    datasets,           \* db.datasets: _id -> document
    images,             \* db.images: the documents in insertion order
    blobs,              \* the bucket: object key -> object
    object_key,         \* per run: argument of process_dataset
    original_filename,  \* per run: argument of process_dataset
    archive,            \* per run: the archive stored under object_key
    pc,                 \* per run: position in process_dataset
    dataset_id,         \* per run: local of process_dataset
    tmp,                \* per run: the TemporaryDirectory and its contents
    actual_root,        \* per run: local of process_dataset
    dataset_doc,        \* per run: local of validate_and_parse_dataset
    image_docs,         \* per run: local of validate_and_parse_dataset
    si,                 \* per run: index of the split loop
    ei,                 \* per run: index of the iterdir loop
    exc,                \* per run: the exception in flight
    result,             \* per run: how process_dataset ended
    trace,              \* per run: the store and bucket calls made, in order
    uploads             \* per run: the calls of upload_image_to_oss

store == <<datasets, images, blobs>>

inputs == <<object_key, original_filename, archive>>

walk == <<dataset_doc, image_docs, si, ei, uploads>>

vars ==
    <<datasets, images, blobs, object_key, original_filename, archive, pc, dataset_id,
      tmp, actual_root, dataset_doc, image_docs, si, ei, exc, result, trace, uploads>>

NoTmp == [state |-> "none", zip |-> FALSE, extracted |-> FALSE]

\* Variant of Cleanup: the directory is left behind.
Cleanup_Leak(t) == t

\* TemporaryDirectory.__exit__: the directory and all it holds are removed.
Cleanup(t) == [state |-> "released", zip |-> FALSE, extracted |-> FALSE]

NoResult == [kind |-> "running", exc |-> NoExc]

\* The state when the runs in started have been invoked and no other.
InitJobs(started) ==
    /\ \E s \in PriorStores :
        /\ datasets = s.datasets
        /\ images = s.images
        /\ blobs = s.blobs
    /\ object_key \in [Runs -> Keys]
    /\ original_filename \in [Runs -> Filenames]
    /\ archive \in [Runs -> ArchiveNames]
    /\ \A r \in Runs \ started :
        /\ object_key[r] = CHOOSE k \in Keys : TRUE
        /\ original_filename[r] = CHOOSE f \in Filenames : TRUE
        /\ archive[r] = CHOOSE a \in ArchiveNames : TRUE
    /\ pc = [r \in Runs |-> IF r \in started THEN "start" ELSE "idle"]
    /\ dataset_id = [r \in Runs |-> <<>>]
    /\ tmp = [r \in Runs |-> NoTmp]
    /\ actual_root = [r \in Runs |-> <<>>]
    /\ dataset_doc = [r \in Runs |-> [nc |-> 0, names |-> <<>>, splits |-> <<>>]]
    /\ image_docs = [r \in Runs |-> <<>>]
    /\ si = [r \in Runs |-> 0]
    /\ ei = [r \in Runs |-> 0]
    /\ exc = [r \in Runs |-> NoExc]
    /\ result = [r \in Runs |-> NoResult]
    /\ trace = [r \in Runs |-> <<>>]
    /\ uploads = [r \in Runs |-> <<>>]

Init == InitJobs({1})

Call(op, ok) == [op |-> op, ok |-> ok]

\* An exception leaves the try block: a with block it passes releases the
\* scratch directory, then the except clause is entered.
Raise(r, type, where, inWith) ==
    /\ exc' = [exc EXCEPT ![r] = ExcOf(type, where)]
    /\ pc' = [pc EXCEPT ![r] = "except"]
    /\ tmp' = IF inWith THEN [tmp EXCEPT ![r] = Cleanup(@)] ELSE tmp

Tree(r) == TreeOf(archive[r])

\* data_yaml = yaml.safe_load(f)
Manifest(r) == Tree(r)[Append(actual_root[r], ManifestName)].data

(***************************************************************************)
(* process_dataset                                                         *)
(***************************************************************************)

\* dataset_id = object_key.split("/")[1], before the try block: an
\* IndexError leaves process_dataset at once.
DeriveId(r) ==
    /\ pc[r] = "start"
    /\ IF HasDatasetId(object_key[r])
       THEN /\ dataset_id' = [dataset_id EXCEPT ![r] = DatasetIdOf(object_key[r])]
            /\ pc' = [pc EXCEPT ![r] = "begin"]
            /\ UNCHANGED <<exc, result>>
       ELSE /\ exc' = [exc EXCEPT ![r] = ExcOf("IndexError", "derive")]
            /\ result' = [result EXCEPT ![r] =
                   [kind |-> "raise", exc |-> ExcOf("IndexError", "derive")]]
            /\ pc' = [pc EXCEPT ![r] = "raised"]
            /\ UNCHANGED dataset_id
    /\ UNCHANGED <<store, inputs, tmp, actual_root, walk, trace>>

\* Variant of Begin: a failed insert is swallowed and the pipeline goes on.
Begin_Swallowed(r) ==
    /\ pc[r] = "begin"
    /\ \/ /\ dataset_id[r] \notin DOMAIN datasets
          /\ datasets' = (dataset_id[r] :> ProcessingDoc(original_filename[r])) @@ datasets
          /\ trace' = [trace EXCEPT ![r] = Append(@, Call("insert_one", TRUE))]
       \/ /\ trace' = [trace EXCEPT ![r] = Append(@, Call("insert_one", FALSE))]
          /\ UNCHANGED datasets
    /\ pc' = [pc EXCEPT ![r] = "with"]
    /\ UNCHANGED <<images, blobs, inputs, dataset_id, tmp, actual_root, walk, exc, result>>

\* await db.datasets.insert_one({... "status": "processing" ...})
Begin(r) ==
    /\ pc[r] = "begin"
    /\ \/ /\ dataset_id[r] \notin DOMAIN datasets
          /\ datasets' = (dataset_id[r] :> ProcessingDoc(original_filename[r])) @@ datasets
          /\ trace' = [trace EXCEPT ![r] = Append(@, Call("insert_one", TRUE))]
          /\ pc' = [pc EXCEPT ![r] = "with"]
          /\ UNCHANGED <<exc, tmp>>
       \/ /\ dataset_id[r] \in DOMAIN datasets
          /\ trace' = [trace EXCEPT ![r] = Append(@, Call("insert_one", FALSE))]
          /\ Raise(r, "DuplicateKeyError", "begin", FALSE)
          /\ UNCHANGED datasets
       \/ /\ trace' = [trace EXCEPT ![r] = Append(@, Call("insert_one", FALSE))]
          /\ Raise(r, "ServerSelectionTimeoutError", "begin", FALSE)
          /\ UNCHANGED datasets
    /\ UNCHANGED <<images, blobs, inputs, dataset_id, actual_root, walk, result>>

\* with tempfile.TemporaryDirectory() as tmp_dir:
EnterTmp(r) ==
    /\ pc[r] = "with"
    /\ tmp' = [tmp EXCEPT ![r] = [state |-> "open", zip |-> FALSE, extracted |-> FALSE]]
    /\ pc' = [pc EXCEPT ![r] = "download"]
    /\ UNCHANGED <<store, inputs, dataset_id, actual_root, walk, exc, result, trace>>

\* download_from_oss(object_key, zip_path)
Download(r) ==
    /\ pc[r] = "download"
    /\ \/ /\ tmp' = [tmp EXCEPT ![r].zip = TRUE]
          /\ trace' = [trace EXCEPT ![r] = Append(@, Call("get_object", TRUE))]
          /\ pc' = [pc EXCEPT ![r] = "extract"]
          /\ UNCHANGED exc
       \/ /\ trace' = [trace EXCEPT ![r] = Append(@, Call("get_object", FALSE))]
          /\ Raise(r, "OssError", "download", TRUE)
    /\ UNCHANGED <<store, inputs, dataset_id, actual_root, walk, result>>

\* with zipfile.ZipFile(zip_path, "r") as zf: zf.extractall(extract_dir)
Extract(r) ==
    /\ pc[r] = "extract"
    /\ IF IsZip(archive[r])
       THEN /\ tmp' = [tmp EXCEPT ![r].extracted = TRUE]
            /\ pc' = [pc EXCEPT ![r] = "locate"]
            /\ UNCHANGED exc
       ELSE Raise(r, "BadZipFile", "extract", TRUE)
    /\ UNCHANGED <<store, inputs, dataset_id, actual_root, walk, result, trace>>

\* actual_root = find_dataset_root(extract_dir)
LocateRoot(r) ==
    /\ pc[r] = "locate"
    /\ LET found == find_dataset_root(Tree(r))
       IN IF found.found
          THEN /\ actual_root' = [actual_root EXCEPT ![r] = found.root]
               /\ pc' = [pc EXCEPT ![r] = "manifest"]
               /\ UNCHANGED <<exc, tmp>>
          ELSE /\ Raise(r, "FileNotFoundError", "locate", TRUE)
               /\ UNCHANGED actual_root
    /\ UNCHANGED <<store, inputs, dataset_id, walk, result, trace>>

(***************************************************************************)
(* validate_and_parse_dataset                                              *)
(***************************************************************************)

\* data_yaml.get(key, default)
Get(doc, key, default) == IF key \in DOMAIN doc THEN doc[key] ELSE default

\* The exception that opening, loading and reading the manifest raises, ""
\* when none: a missing file, a malformed document, or a document that is
\* no mapping.
ManifestError(tree, root) ==
    LET path == Append(root, ManifestName)
    IN CASE path \notin DOMAIN tree -> "FileNotFoundError"
         [] tree[path].kind = "dir" -> "IsADirectoryError"
         [] tree[path].data.t = "yaml" -> ""
         [] tree[path].data.t = "yamlnone" -> "AttributeError"
         [] OTHER -> "YAMLError"

\* dataset_doc = {"_id": ..., "name": ..., "status": "ready", "nc": ...,
\*                "names": ..., "splits": []}
NewDatasetDoc(id, name, doc) ==
    [_id |-> id, name |-> name, status |-> "ready", nc |-> Get(doc, "nc", 0),
     names |-> Get(doc, "names", <<>>), splits |-> <<>>]

ParseManifest(r) ==
    /\ pc[r] = "manifest"
    /\ LET err == ManifestError(Tree(r), actual_root[r])
       IN IF err = ""
          THEN /\ dataset_doc' = [dataset_doc EXCEPT ![r] =
                      NewDatasetDoc(dataset_id[r], original_filename[r], Manifest(r).doc)]
               /\ image_docs' = [image_docs EXCEPT ![r] = <<>>]
               /\ si' = [si EXCEPT ![r] = 1]
               /\ pc' = [pc EXCEPT ![r] = "split"]
               /\ UNCHANGED <<exc, tmp>>
          ELSE /\ Raise(r, err, "manifest", TRUE)
               /\ UNCHANGED <<dataset_doc, image_docs, si>>
    /\ UNCHANGED <<store, inputs, dataset_id, actual_root, ei, uploads, result, trace>>

\* The split the loop is at.
CurSplit(r) == SplitNames[si[r]]

\* Variant of Declared: the split loop does not test the manifest.
Declared_Always(doc, split) == TRUE

\* if split not in data_yaml: continue
Declared(doc, split) == split \in DOMAIN doc

\* dataset_doc["splits"].append(split)
AppendSplit(doc, split) == [doc EXCEPT !.splits = Append(@, split)]

\* img_dir of the split the loop is at, from img_rel_path = data_yaml[split].
ImgDir(r) == ResolveImgDir(actual_root[r], Manifest(r).doc[CurSplit(r)])

\* One pass of "for split in [...]" up to the image loop: an undeclared
\* split is passed over; a declared one is appended to the recorded splits,
\* and walked when its image directory exists.
SplitStep(r) ==
    /\ pc[r] = "split"
    /\ si[r] <= Len(SplitNames)
    /\ IF ~Declared(Manifest(r).doc, CurSplit(r))
       THEN /\ si' = [si EXCEPT ![r] = @ + 1]
            /\ UNCHANGED <<dataset_doc, ei, pc, exc, tmp>>
       ELSE /\ dataset_doc' = [dataset_doc EXCEPT ![r] = AppendSplit(@, CurSplit(r))]
            /\ IF CurSplit(r) \notin DOMAIN Manifest(r).doc
               THEN /\ Raise(r, "KeyError", "walk", TRUE)
                    /\ UNCHANGED <<si, ei>>
               ELSE IF ~Exists(Tree(r), ImgDir(r))
               THEN /\ si' = [si EXCEPT ![r] = @ + 1]
                    /\ UNCHANGED <<ei, pc, exc, tmp>>
               ELSE IF ~IsDir(Tree(r), ImgDir(r))
               THEN /\ Raise(r, "NotADirectoryError", "walk", TRUE)
                    /\ UNCHANGED <<si, ei>>
               ELSE /\ ei' = [ei EXCEPT ![r] = 1]
                    /\ pc' = [pc EXCEPT ![r] = "image"]
                    /\ UNCHANGED <<si, exc, tmp>>
    /\ UNCHANGED <<store, inputs, dataset_id, actual_root, image_docs, uploads, result, trace>>

\* The directory entries of the split being walked.
Entries(r) == IterDir(Tree(r), ImgDir(r))

\* Variant of IsImageFile: the suffix is compared without .lower().
IsImageFile_CaseSensitive(tree, loc) ==
    /\ ~IsDir(tree, loc)
    /\ Suffix(NameOf(loc)) \in ImageSuffixes

\* if img_path.is_dir() or img_path.suffix.lower() not in [...]: continue
IsImageFile(tree, loc) ==
    /\ ~IsDir(tree, loc)
    /\ Lower(Suffix(NameOf(loc))) \in ImageSuffixes

SkipEntry(r) ==
    /\ pc[r] = "image"
    /\ ei[r] <= Len(Entries(r))
    /\ ~IsImageFile(Tree(r), Entries(r)[ei[r]])
    /\ ei' = [ei EXCEPT ![r] = @ + 1]
    /\ UNCHANGED <<store, inputs, pc, dataset_id, tmp, actual_root, dataset_doc,
                   image_docs, si, uploads, exc, result, trace>>

\* The bucket after put_object_from_file(oss_key, local_img_path).
PutObject(b, key, data, o) == IF o.stored THEN (key :> data) @@ b ELSE b

\* One image: upload_image_to_oss, the annotation step, the dimensions, and
\* image_docs.append.
ProcessImage(r) ==
    /\ pc[r] = "image"
    /\ ei[r] <= Len(Entries(r))
    /\ IsImageFile(Tree(r), Entries(r)[ei[r]])
    /\ LET img == Entries(r)[ei[r]]
           name == NameOf(img)
           node == Tree(r)[img.parts]
           labels == ReadLabels(Tree(r), LabelPathOf(LabelDirOf(ImgDir(r)), name))
       IN \E o \in UploadOutcomes :
           LET up == upload_image_to_oss(o)
           IN /\ blobs' = PutObject(blobs, OssKey(dataset_id[r], name), node.data, o)
              /\ uploads' = [uploads EXCEPT ![r] = Append(@,
                     [filename |-> name, split |-> CurSplit(r), ok |-> up.returns,
                      stored |-> o.stored, data |-> node.data])]
              /\ trace' = [trace EXCEPT ![r] = Append(@, Call("put_object", up.returns))]
              /\ IF up.raised # ""
                 THEN /\ Raise(r, up.raised, "upload", TRUE)
                      /\ UNCHANGED <<image_docs, ei>>
                 ELSE IF labels.raised # ""
                 THEN /\ Raise(r, labels.raised, "labels", TRUE)
                      /\ UNCHANGED <<image_docs, ei>>
                 ELSE /\ image_docs' = [image_docs EXCEPT ![r] = Append(@,
                             ImageDoc(dataset_id[r], name, CurSplit(r),
                                      ReadDimensions(node), labels.annotations))]
                      /\ ei' = [ei EXCEPT ![r] = @ + 1]
                      /\ UNCHANGED <<pc, exc, tmp>>
    /\ UNCHANGED <<datasets, images, inputs, dataset_id, actual_root, dataset_doc, si,
                   result>>

\* The iterdir loop is exhausted: on to the next split.
EndSplit(r) ==
    /\ pc[r] = "image"
    /\ ei[r] > Len(Entries(r))
    /\ si' = [si EXCEPT ![r] = @ + 1]
    /\ pc' = [pc EXCEPT ![r] = "split"]
    /\ UNCHANGED <<store, inputs, dataset_id, tmp, actual_root, dataset_doc, image_docs,
                   ei, uploads, exc, result, trace>>

\* return dataset_doc, image_docs
WalkReturn(r) ==
    /\ pc[r] = "split"
    /\ si[r] > Len(SplitNames)
    /\ pc' = [pc EXCEPT ![r] = "complete"]
    /\ UNCHANGED <<store, inputs, dataset_id, tmp, actual_root, walk, exc, result, trace>>

(***************************************************************************)
(* process_dataset, continued: complete(), fail() and the exits            *)
(***************************************************************************)

\* await db.datasets.update_one({"_id": dataset_id}, {"$set": {"status":
\* "ready", ...}}): the status flip of complete().
UpdateReady(r) ==
    /\ pc[r] = "complete"
    /\ \/ /\ datasets' = UpdateOne(datasets, dataset_id[r], ReadySet(dataset_doc[r]), FALSE)
          /\ trace' = [trace EXCEPT ![r] = Append(@, Call("update_ready", TRUE))]
          /\ pc' = [pc EXCEPT ![r] = "insert"]
          /\ UNCHANGED <<exc, tmp>>
       \/ /\ trace' = [trace EXCEPT ![r] = Append(@, Call("update_ready", FALSE))]
          /\ Raise(r, "AutoReconnect", "complete", TRUE)
          /\ UNCHANGED datasets
    /\ UNCHANGED <<images, blobs, inputs, dataset_id, actual_root, walk, result>>

\* if image_docs: await db.images.insert_many(image_docs).  The insert is
\* ordered: when it fails, the documents before the failing one are stored.
InsertMany(r) ==
    /\ pc[r] = "insert"
    /\ IF image_docs[r] = <<>>
       THEN /\ pc' = [pc EXCEPT ![r] = "exit"]
            /\ UNCHANGED <<images, trace, exc, tmp>>
       ELSE \/ /\ images' = images \o image_docs[r]
               /\ trace' = [trace EXCEPT ![r] = Append(@, Call("insert_many", TRUE))]
               /\ pc' = [pc EXCEPT ![r] = "exit"]
               /\ UNCHANGED <<exc, tmp>>
            \/ \E k \in 0..(Len(image_docs[r]) - 1) :
               /\ images' = images \o SubSeq(image_docs[r], 1, k)
               /\ trace' = [trace EXCEPT ![r] = Append(@, Call("insert_many", FALSE))]
               /\ Raise(r, "BulkWriteError", "insert", TRUE)
    /\ UNCHANGED <<datasets, blobs, inputs, dataset_id, actual_root, walk, result>>

\* The with block ends and process_dataset returns {"status": "success"}.
Return(r) ==
    /\ pc[r] = "exit"
    /\ tmp' = [tmp EXCEPT ![r] = Cleanup(@)]
    /\ result' = [result EXCEPT ![r] = [kind |-> "return", exc |-> NoExc]]
    /\ pc' = [pc EXCEPT ![r] = "returned"]
    /\ UNCHANGED <<store, inputs, dataset_id, actual_root, walk, exc, trace>>

\* except Exception as e: error_msg = str(e)[:500]; update_one(..., {"$set":
\* {"status": "failed", "error": error_msg}}, upsert=True)
Fail(r) ==
    /\ pc[r] = "except"
    /\ datasets' = UpdateOne(datasets, dataset_id[r], FailedSet(exc[r]), TRUE)
    /\ trace' = [trace EXCEPT ![r] = Append(@, Call("update_failed", TRUE))]
    /\ pc' = [pc EXCEPT ![r] = "reraise"]
    /\ UNCHANGED <<images, blobs, inputs, dataset_id, tmp, actual_root, walk, exc, result>>

\* Variant of Reraised: the except clause raises a new exception.
Reraised_Wrapped(e) == ExcOf("RuntimeError", "except")

\* The exception that leaves the except clause.
Reraised(e) == e

\* raise
Reraise(r) ==
    /\ pc[r] = "reraise"
    /\ result' = [result EXCEPT ![r] = [kind |-> "raise", exc |-> Reraised(exc[r])]]
    /\ pc' = [pc EXCEPT ![r] = "raised"]
    /\ UNCHANGED <<store, inputs, dataset_id, tmp, actual_root, walk, exc, trace>>

Next ==
    \E r \in Runs :
        \/ DeriveId(r)
        \/ Begin(r)
        \/ EnterTmp(r)
        \/ Download(r)
        \/ Extract(r)
        \/ LocateRoot(r)
        \/ ParseManifest(r)
        \/ SplitStep(r)
        \/ SkipEntry(r)
        \/ ProcessImage(r)
        \/ EndSplit(r)
        \/ WalkReturn(r)
        \/ UpdateReady(r)
        \/ InsertMany(r)
        \/ Return(r)
        \/ Fail(r)
        \/ Reraise(r)

Spec == Init /\ [][Next]_vars

(***************************************************************************)
(* The two entry points.  The local one is the __main__ block, which       *)
(* imports asyncio and calls process_dataset with both command-line        *)
(* arguments.  The event-driven one is handler(event, context), called by  *)
(* the function service on the imported module.                            *)
(***************************************************************************)

\* The names the imported module binds at top level (lines 2-13); asyncio is
\* imported only under if __name__ == "__main__".
ModuleGlobals ==
    {"datetime", "json", "os", "oss2", "tempfile", "yaml", "zipfile", "Path",
     "urlparse", "AsyncIOMotorClient", "check_det_dataset", "Image"}

\* handler: the key is read from the event, filename is its last segment,
\* then asyncio.run(process_dataset(object_key, filename)): the name asyncio
\* is looked up before process_dataset is called.
Handler(r) ==
    /\ pc[r] = "event"
    /\ original_filename' = [original_filename EXCEPT ![r] = LastSegment(object_key[r])]
    /\ IF "asyncio" \in ModuleGlobals
       THEN /\ pc' = [pc EXCEPT ![r] = "start"]
            /\ UNCHANGED <<exc, result>>
       ELSE /\ exc' = [exc EXCEPT ![r] = ExcOf("NameError", "handler")]
            /\ result' = [result EXCEPT ![r] =
                   [kind |-> "raise", exc |-> ExcOf("NameError", "handler")]]
            /\ pc' = [pc EXCEPT ![r] = "raised"]
    /\ UNCHANGED <<store, object_key, archive, dataset_id, tmp, actual_root, walk, trace>>

NextEntry == Next \/ \E r \in Runs : Handler(r)

KeyA == <<"uploads", "/", "a", "/", "ds.zip">>

KeyB == <<"uploads", "/", "b", "/", "ds.zip">>

\* Run 1 is the local invocation process_dataset(K, last segment of K), run 2
\* an event for a key of the same shape; the stores are empty.
InitEntry ==
    /\ datasets = <<>>
    /\ images = <<>>
    /\ blobs = <<>>
    /\ object_key = [r \in Runs |-> IF r = 2 THEN KeyB ELSE KeyA]
    /\ original_filename = [r \in Runs |-> IF r = 2 THEN <<>> ELSE LastSegment(KeyA)]
    /\ archive \in [Runs -> ArchiveNames]
    /\ \A r \in Runs \ {1} : archive[r] = archive[1]
    /\ pc = [r \in Runs |-> IF r = 1 THEN "start" ELSE IF r = 2 THEN "event" ELSE "idle"]
    /\ dataset_id = [r \in Runs |-> <<>>]
    /\ tmp = [r \in Runs |-> NoTmp]
    /\ actual_root = [r \in Runs |-> <<>>]
    /\ dataset_doc = [r \in Runs |-> [nc |-> 0, names |-> <<>>, splits |-> <<>>]]
    /\ image_docs = [r \in Runs |-> <<>>]
    /\ si = [r \in Runs |-> 0]
    /\ ei = [r \in Runs |-> 0]
    /\ exc = [r \in Runs |-> NoExc]
    /\ result = [r \in Runs |-> NoResult]
    /\ trace = [r \in Runs |-> <<>>]
    /\ uploads = [r \in Runs |-> <<>>]

SpecEntry == InitEntry /\ [][NextEntry]_vars

(***************************************************************************)
(* Two jobs at once.  Each job is a process of its own (one invocation of  *)
(* the function service, or one local command); the jobs share the         *)
(* document store and the bucket and nothing else, and their store and     *)
(* bucket calls interleave in any order.                                   *)
(***************************************************************************)

\* The key of the second job: another dataset_id, or the same one under
\* another key.
ConcKeys2 == {KeyB, <<"x", "/", "a">>}

ConcArchives == {"flat", "shared", "corrupt"}

\* Both jobs invoked on empty stores.
InitConc ==
    /\ datasets = <<>>
    /\ images = <<>>
    /\ blobs = <<>>
    /\ object_key \in [Runs -> Keys]
    /\ \A r \in Runs \ {2} : object_key[r] = KeyA
    /\ object_key[2] \in ConcKeys2
    /\ original_filename = [r \in Runs |-> IF r = 1 THEN <<"ds.zip">> ELSE <<"my.zip">>]
    /\ archive \in [Runs -> ConcArchives]
    /\ \A r \in Runs \ {1, 2} : archive[r] = "corrupt"
    /\ pc = [r \in Runs |-> IF r \in {1, 2} THEN "start" ELSE "idle"]
    /\ dataset_id = [r \in Runs |-> <<>>]
    /\ tmp = [r \in Runs |-> NoTmp]
    /\ actual_root = [r \in Runs |-> <<>>]
    /\ dataset_doc = [r \in Runs |-> [nc |-> 0, names |-> <<>>, splits |-> <<>>]]
    /\ image_docs = [r \in Runs |-> <<>>]
    /\ si = [r \in Runs |-> 0]
    /\ ei = [r \in Runs |-> 0]
    /\ exc = [r \in Runs |-> NoExc]
    /\ result = [r \in Runs |-> NoResult]
    /\ trace = [r \in Runs |-> <<>>]
    /\ uploads = [r \in Runs |-> <<>>]

SpecConc == InitConc /\ [][Next]_vars

(***************************************************************************)
(* Vocabulary of the properties                                            *)
(***************************************************************************)

Range(f) == {f[i] : i \in DOMAIN f}

\* The run has left process_dataset, by return or by an exception.
Ended(r) == pc[r] \in {"returned", "raised"}

\* The run made the call op and the call succeeded.
Did(r, op) == \E i \in DOMAIN trace[r] : trace[r][i] = Call(op, TRUE)

\* The run attempted the call op.
Tried(r, op) == \E i \in DOMAIN trace[r] : trace[r][i].op = op

\* The status of the run's datasets document, "absent" when there is none.
StatusOf(r) ==
    IF HasDatasetId(object_key[r]) /\ DatasetIdOf(object_key[r]) \in DOMAIN datasets
    THEN datasets[DatasetIdOf(object_key[r])].status
    ELSE "absent"

\* The images documents of the run's dataset.
ImagesOf(r) ==
    LET Mine(d) == d.dataset_id = dataset_id[r] IN SelectSeq(images, Mine)

\* The manifest an archive holds at its dataset root, the empty mapping when
\* the archive has no readable manifest at depth 0 or 1.
ManifestOfArchive(a) ==
    LET found == find_dataset_root(TreeOf(a))
    IN IF IsZip(a) /\ found.found /\ ManifestError(TreeOf(a), found.root) = ""
       THEN TreeOf(a)[Append(found.root, ManifestName)].data.doc
       ELSE <<>>

\* The recognised split names the manifest of an archive declares.
DeclaredSplits(a) == {sp \in Range(SplitNames) : sp \in DOMAIN ManifestOfArchive(a)}

\* The image directory an archive declares for a split.
SplitDir(a, sp) ==
    ResolveImgDir(find_dataset_root(TreeOf(a)).root, ManifestOfArchive(a)[sp])

\* The declared splits whose image directory is in the archive.
FoundSplits(a) == {sp \in DeclaredSplits(a) : IsDir(TreeOf(a), SplitDir(a, sp))}

\* The files of a directory that are images by name: a file with suffix
\* .jpg, .jpeg or .png in any letter case.
ImageFilesIn(a, dir) ==
    {loc \in Range(IterDir(TreeOf(a), dir)) :
        /\ TreeOf(a)[loc.parts].kind = "file"
        /\ Suffix(NameOf(loc)) \in {".jpg", ".jpeg", ".png", ".JPG", ".PNG"}}

\* The image files a walk of the archive discovers, one per split and file.
Discovered(a) ==
    UNION {{<<sp, loc>> : loc \in ImageFilesIn(a, SplitDir(a, sp))} : sp \in FoundSplits(a)}

(***************************************************************************)
(* C1.  Every run of process_dataset, for any archive key and any failure  *)
(* of any step, the derivation of dataset_id included, leaves the datasets *)
(* document of its dataset_id in a terminal status: once the run has       *)
(* ended, the document exists and its status is ready or failed.           *)
(***************************************************************************)
C1_TerminalStatus ==
    \A r \in Runs : Ended(r) => StatusOf(r) \in {"ready", "failed"}

(***************************************************************************)
(* C2.  Within one run the status of the document only moves from          *)
(* processing to ready or to failed: after the run has written ready or    *)
(* failed, it writes no different status.                                  *)
(***************************************************************************)
StatusWritten(call) ==
    CASE call = Call("insert_one", TRUE) -> "processing"
      [] call = Call("update_ready", TRUE) -> "ready"
      [] call = Call("update_failed", TRUE) -> "failed"
      [] OTHER -> ""

C2_StatusMonotonic ==
    \A r \in Runs : \A i, j \in DOMAIN trace[r] :
        (/\ i < j
         /\ StatusWritten(trace[r][i]) \in {"ready", "failed"}
         /\ StatusWritten(trace[r][j]) # "")
        => StatusWritten(trace[r][j]) = StatusWritten(trace[r][i])

(***************************************************************************)
(* C3.  For a run on a dataset_id with no prior documents (its begin()     *)
(* inserted the document), if download, extraction, root location or       *)
(* manifest parsing raises, the run ends with the document in status       *)
(* failed with an error field, and no images document has its dataset_id.  *)
(***************************************************************************)
EarlyStages == {"download", "extract", "locate", "manifest"}

C4_ReadyWithAllImages ==
    \A r \in Runs :
        pc[r] = "returned"
        => /\ StatusOf(r) = "ready"
           /\ Len(ImagesOf(r)) = Cardinality(Discovered(archive[r]))

C4_Witness ==
    \E r \in Runs :
        /\ pc[r] = "returned"
        /\ Cardinality(Discovered(archive[r])) >= 2
        /\ Len(ImagesOf(r)) >= 2

(***************************************************************************)
(* C5.  Whenever a stage of process_dataset (begin() through complete())   *)
(* raises, the exception is handled once at the top level: fail() is       *)
(* applied once to the job's document with that exception's message, kept  *)
(* to its first 500 characters, and the same exception then reaches the    *)
(* caller; the success result is returned only when no stage raised and    *)
(* the last status the run wrote is ready.                                 *)
(***************************************************************************)
FailCalls(r) == {i \in DOMAIN trace[r] : trace[r][i].op = "update_failed"}

C6_RecordedSplitsFound ==
    \A r \in Runs :
        (Did(r, "update_ready") /\ pc[r] \in {"insert", "exit", "returned"})
        => Range(datasets[dataset_id[r]].splits) \subseteq FoundSplits(archive[r])

(***************************************************************************)
(* C7.  A split name the manifest does not declare is never walked: no     *)
(* image is published and no image document is produced under it, and it   *)
(* never appears in the recorded splits, even when a directory of that     *)
(* name is in the archive; only train, val and test are considered.        *)
(***************************************************************************)
C7_UndeclaredNeverWalked ==
    \A r \in Runs :
        /\ \A u \in Range(uploads[r]) : u.split \in DeclaredSplits(archive[r])
        /\ \A d \in Range(image_docs[r]) : d.split \in DeclaredSplits(archive[r])
        /\ Range(dataset_doc[r].splits) \subseteq DeclaredSplits(archive[r])
        /\ Did(r, "insert_one")
           => \A d \in Range(ImagesOf(r)) : d.split \in DeclaredSplits(archive[r])
        /\ Did(r, "update_ready")
           => Range(datasets[dataset_id[r]].splits) \subseteq DeclaredSplits(archive[r])

C7_Witness ==
    \E r \in Runs :
        /\ pc[r] = "returned"
        /\ "val" \notin DeclaredSplits(archive[r])
        /\ IsDir(Tree(r), Below(actual_root[r] \o ImagesVal))
        /\ ImageFilesIn(archive[r], Below(actual_root[r] \o ImagesVal)) # {}
        /\ uploads[r] # <<>>
        /\ "val" \notin Range(datasets[dataset_id[r]].splits)

(***************************************************************************)
(* C8.  A publish failure (a reply other than 200, or an exception of the  *)
(* blob store) or a dimension-read failure for an image never aborts the   *)
(* walk or the job: the image still yields exactly one record with its     *)
(* parsed annotations (width and height 0 when the dimensions cannot be    *)
(* read), the remaining images are processed, and the job can end ready.   *)
(***************************************************************************)
\* The file an image record was made from.
FileOf(a, d) == TreeOf(a)[Append(SplitDir(a, d.split).parts, d.filename)]

\* The label file of an image record: same stem, suffix .txt, in the
\* directory named like the image directory with images replaced by labels.
LabelFileOf(a, d) == LabelPathOf(LabelDirOf(SplitDir(a, d.split)), d.filename)

\* The records of a label file, none when the file is missing.
AnnotationsOf(a, d) ==
    IF Exists(TreeOf(a), LabelFileOf(a, d))
    THEN ParseLines(TreeOf(a)[LabelFileOf(a, d).parts].data.lines)
    ELSE <<>>

C8_ImageFailuresAbsorbed ==
    \A r \in Runs :
        /\ Len(uploads[r]) - Len(image_docs[r]) \in {0, 1}
        /\ Len(uploads[r]) > Len(image_docs[r]) => exc[r].where = "labels"
        /\ \A i \in DOMAIN image_docs[r] :
            /\ image_docs[r][i].filename = uploads[r][i].filename
            /\ image_docs[r][i].split = uploads[r][i].split
            /\ LET file == FileOf(archive[r], image_docs[r][i])
               IN IF file.data.t = "image"
                  THEN /\ image_docs[r][i].width = file.data.w
                       /\ image_docs[r][i].height = file.data.h
                  ELSE /\ image_docs[r][i].width = 0
                       /\ image_docs[r][i].height = 0
            /\ image_docs[r][i].annotations = AnnotationsOf(archive[r], image_docs[r][i])
        /\ pc[r] \in {"complete", "insert", "exit", "returned"}
           => Len(image_docs[r]) = Cardinality(Discovered(archive[r]))

C8_Witness ==
    \E r \in Runs :
        /\ pc[r] = "returned"
        /\ StatusOf(r) = "ready"
        /\ Len(ImagesOf(r)) >= 2
        /\ \E i \in DOMAIN uploads[r] : ~uploads[r][i].ok /\ i < Len(uploads[r])
        /\ \E d \in Range(ImagesOf(r)) : d.width = 0 /\ d.height = 0
        /\ \E i \in DOMAIN uploads[r] : ~uploads[r][i].ok /\ image_docs[r][i].annotations # <<>>

(***************************************************************************)
(* C9.  The insert of the document in status processing comes before any   *)
(* other externally visible effect of a run: no download, no upload and no *)
(* write to images happens before begin() was attempted, and when begin()  *)
(* fails none of those later stages runs.                                  *)
(***************************************************************************)
C9_BeginFirst ==
    \A r \in Runs :
        /\ trace[r] # <<>> => trace[r][1].op = "insert_one"
        /\ (\/ Tried(r, "get_object")
            \/ Tried(r, "put_object")
            \/ Tried(r, "update_ready")
            \/ Tried(r, "insert_many")
            \/ tmp[r].state # "none"
            \/ uploads[r] # <<>>)
           => trace[r][1] = Call("insert_one", TRUE)

C9_Witness ==
    \E r \in Runs :
        /\ pc[r] = "raised"
        /\ trace[r] = <<Call("insert_one", FALSE), Call("update_failed", TRUE)>>
        /\ tmp[r].state = "none"

(***************************************************************************)
(* C10.  The scratch directory of a run is released on every exit path:    *)
(* once process_dataset has returned or raised, wherever the failure was,  *)
(* the directory and what it held no longer exist.                         *)
(***************************************************************************)
C10_ScratchReleased ==
    \A r \in Runs :
        Ended(r) => /\ tmp[r].state \in {"none", "released"}
                    /\ ~tmp[r].zip
                    /\ ~tmp[r].extracted

C10_Witness ==
    \E r \in Runs :
        /\ pc[r] = "raised"
        /\ exc[r].where = "insert"
        /\ tmp[r].state = "released"

(***************************************************************************)
(* C11.  Two runs with different dataset_ids, under any interleaving of    *)
(* their store and bucket calls, write only the datasets document, the     *)
(* images documents and the blob keys of their own dataset_id: at every    *)
(* moment the stores hold exactly what each run alone would have written   *)
(* on empty stores, which is the content of running the jobs one after the *)
(* other in either order (images documents up to their insertion order).   *)
(***************************************************************************)
Started(r) == pc[r] # "idle"

DifferentIds ==
    \A r, q \in Runs :
        (Started(r) /\ Started(q) /\ r # q)
        => /\ HasDatasetId(object_key[r])
           /\ HasDatasetId(object_key[q])
           /\ DatasetIdOf(object_key[r]) # DatasetIdOf(object_key[q])

\* The blob key datasets/{dataset_id}/images/{filename}.
OwnKey(id, filename) == <<"datasets", "/">> \o id \o <<"/", "images", "/">> \o filename

\* The datasets collection after the first n store calls of run r, made
\* alone on an empty collection.
RECURSIVE AloneDatasets(_, _)
AloneDatasets(r, n) ==
    IF n = 0 THEN <<>>
    ELSE LET before == AloneDatasets(r, n - 1)
             call == trace[r][n]
         IN CASE call = Call("insert_one", TRUE) ->
                     (dataset_id[r] :> ProcessingDoc(original_filename[r])) @@ before
              [] call = Call("update_ready", TRUE) ->
                     IF dataset_id[r] \in DOMAIN before
                     THEN [before EXCEPT ![dataset_id[r]] = ReadySet(dataset_doc[r]) @@ @]
                     ELSE before
              [] call = Call("update_failed", TRUE) ->
                     IF dataset_id[r] \in DOMAIN before
                     THEN [before EXCEPT ![dataset_id[r]] = FailedSet(exc[r]) @@ @]
                     ELSE (dataset_id[r] :> FailedSet(exc[r])) @@ before
              [] OTHER -> before

\* The bucket after the first n uploads of run r, made alone on an empty
\* bucket.
RECURSIVE AloneBlobs(_, _)
AloneBlobs(r, n) ==
    IF n = 0 THEN <<>>
    ELSE LET before == AloneBlobs(r, n - 1)
             up == uploads[r][n]
         IN IF up.stored
            THEN (OwnKey(dataset_id[r], up.filename) :> up.data) @@ before
            ELSE before

IsPrefix(s, t) == Len(s) <= Len(t) /\ s = SubSeq(t, 1, Len(s))

\* The images documents of the run's dataset are those its bulk insert wrote.
AloneImages(r) ==
    /\ IsPrefix(ImagesOf(r), image_docs[r])
    /\ Did(r, "insert_many") => ImagesOf(r) = image_docs[r]
    /\ ~Tried(r, "insert_many") => ImagesOf(r) = <<>>

C11_Isolated ==
    DifferentIds =>
        /\ DOMAIN datasets = UNION {DOMAIN AloneDatasets(r, Len(trace[r])) : r \in Runs}
        /\ \A r \in Runs : \A id \in DOMAIN AloneDatasets(r, Len(trace[r])) :
               datasets[id] = AloneDatasets(r, Len(trace[r]))[id]
        /\ DOMAIN blobs = UNION {DOMAIN AloneBlobs(r, Len(uploads[r])) : r \in Runs}
        /\ \A r \in Runs : \A k \in DOMAIN AloneBlobs(r, Len(uploads[r])) :
               blobs[k] = AloneBlobs(r, Len(uploads[r]))[k]
        /\ \A i \in DOMAIN images : \E r \in Runs : images[i].dataset_id = dataset_id[r]
        /\ \A r \in Runs : AloneImages(r)

\* Both jobs ran to their return side by side, each storing documents and
\* blobs.
C11_Witness ==
    /\ DifferentIds
    /\ \A r \in {1, 2} :
           /\ pc[r] = "returned"
           /\ Did(r, "insert_many")
           /\ \E i \in DOMAIN uploads[r] : uploads[r][i].stored
    /\ images # <<>>
    /\ images[1].dataset_id = dataset_id[2]
    /\ images[Len(images)].dataset_id = dataset_id[1]

(***************************************************************************)
(* C12.  find_dataset_root returns the extraction directory when the       *)
(* manifest is directly under it, also when child directories hold one     *)
(* too; otherwise an immediate child directory that holds the manifest;    *)
(* otherwise it raises.  It never returns a directory without the manifest *)
(* directly in it, nor one nested two or more levels deep.                 *)
(***************************************************************************)
\* The run's call of find_dataset_root returned.
Located(r) ==
    \/ pc[r] \in {"manifest", "split", "image", "complete", "insert", "exit", "returned"}
    \/ /\ pc[r] \in {"except", "reraise", "raised"}
       /\ exc[r].where \in {"manifest", "walk", "upload", "labels", "complete", "insert"}

TopHasManifest(tree) == <<ManifestName>> \in DOMAIN tree

ChildrenWithManifest(tree) ==
    {c \in Range(tree[<<>>].list) :
        /\ tree[<<c>>].kind = "dir"
        /\ <<c, ManifestName>> \in DOMAIN tree}

C12_RootAtDepthZeroOrOne ==
    \A r \in Runs :
        /\ Located(r) =>
               /\ Append(actual_root[r], ManifestName) \in DOMAIN Tree(r)
               /\ IF TopHasManifest(Tree(r))
                  THEN actual_root[r] = <<>>
                  ELSE /\ Len(actual_root[r]) = 1
                       /\ actual_root[r][1] \in ChildrenWithManifest(Tree(r))
        /\ (pc[r] \in {"except", "reraise", "raised"} /\ exc[r].where = "locate") =>
               /\ exc[r].type = "FileNotFoundError"
               /\ ~TopHasManifest(Tree(r))
               /\ ChildrenWithManifest(Tree(r)) = {}

\* A tree with the manifest at depth 0 and in a child directory too: the
\* extraction directory was returned.
C12_Witness ==
    \E r \in Runs :
        /\ archive[r] = "both"
        /\ pc[r] = "manifest"
        /\ actual_root[r] = <<>>
        /\ ChildrenWithManifest(Tree(r)) = {N("ds")}

(***************************************************************************)
(* C13.  The annotations of an image are exactly the in-order records of   *)
(* the lines of its label file that have at least 5 whitespace-separated   *)
(* tokens, token 0 an integer and tokens 1..4 floats (class_id is token 0, *)
(* bbox is tokens 1..4, further tokens are ignored); every other line is   *)
(* dropped and the lines after it are still read; a missing label file     *)
(* gives the empty sequence and no error.                                  *)
(***************************************************************************)
Tokens(line) == SelectSeq(line, LAMBDA a : a \notin {" ", "\n"})

Survives(line) ==
    /\ Len(Tokens(line)) >= 5
    /\ Tokens(line)[1] \in DOMAIN IntOf
    /\ \A i \in 2..5 : Tokens(line)[i] \in DOMAIN FloatOf

RecordOf(line) ==
    [class_id |-> IntOf[Tokens(line)[1]],
     bbox |-> <<FloatOf[Tokens(line)[2]], FloatOf[Tokens(line)[3]],
                FloatOf[Tokens(line)[4]], FloatOf[Tokens(line)[5]]>>]

RECURSIVE SurvivingRecords(_)
SurvivingRecords(lines) ==
    IF lines = <<>> THEN <<>>
    ELSE (IF Survives(Head(lines)) THEN <<RecordOf(Head(lines))>> ELSE <<>>)
         \o SurvivingRecords(Tail(lines))

C13_AnnotationsAreSurvivingLines ==
    \A r \in Runs : \A i \in DOMAIN image_docs[r] :
        LET d == image_docs[r][i]
            label == LabelFileOf(archive[r], d)
        IN IF ~Exists(Tree(r), label)
           THEN d.annotations = <<>>
           ELSE Tree(r)[label.parts].data.t = "text"
                => d.annotations = SurvivingRecords(Tree(r)[label.parts].data.lines)

\* A label file with good, short, non-numeric, blank and long lines was
\* read, next to an image without label file, and the job went on.
C13_Witness ==
    \E r \in Runs :
        /\ archive[r] = "flat"
        /\ pc[r] = "returned"
        /\ Len(image_docs[r]) = 2
        /\ image_docs[r][1].annotations =
               << [class_id |-> 2, bbox |-> <<"0.5", "0.5", "0.2", "0.3">>],
                  [class_id |-> 7, bbox |-> <<"0.5", "1.0", "0.1", "nan">>] >>
        /\ ~Exists(Tree(r), LabelFileOf(archive[r], image_docs[r][2]))
        /\ image_docs[r][2].annotations = <<>>

(***************************************************************************)
(* C14.  In every reachable state of the document store, under any         *)
(* sequence or interleaving of runs, runs for the same dataset_id          *)
(* included, a datasets document carries an error field if and only if its *)
(* status is failed.                                                       *)
(***************************************************************************)
C14_ErrorIffFailed ==
    \A id \in DOMAIN datasets :
        ("error" \in DOMAIN datasets[id]) <=> (datasets[id].status = "failed")

(***************************************************************************)
(* C15.  complete() first flips the datasets document to ready, with the   *)
(* class and split fields and processed_at, and only then bulk-inserts the *)
(* image documents; when the bulk insert fails after the flip, the job is  *)
(* left in status ready with no images documents.                          *)
(***************************************************************************)
InsertFailed(r) == \E i \in DOMAIN trace[r] : trace[r][i] = Call("insert_many", FALSE)

C15_ReadyWithoutImages ==
    \A r \in Runs :
        /\ \A j \in DOMAIN trace[r] :
               trace[r][j].op = "insert_many"
               => \E i \in 1..(j - 1) : trace[r][i] = Call("update_ready", TRUE)
        /\ (Ended(r) /\ Did(r, "insert_one") /\ InsertFailed(r)) =>
               /\ StatusOf(r) = "ready"
               /\ {"nc", "names", "splits", "processed_at"} \subseteq
                      DOMAIN datasets[dataset_id[r]]
               /\ ImagesOf(r) = <<>>

(***************************************************************************)
(* C16.  After a successful run the image documents of the dataset are     *)
(* unique by (dataset_id, filename), and each discovered image file has    *)
(* exactly one image document and exactly one blob key                     *)
(* datasets/{dataset_id}/images/{filename} of its own, also when two       *)
(* declared splits hold files of the same name or resolve to the same      *)
(* image directory.                                                        *)
(***************************************************************************)
\* The image files of the archive that the walk discovers.
DiscoveredFiles(a) == {d[2].parts : d \in Discovered(a)}

\* The blob keys of the run's dataset.
BlobKeysOf(r) ==
    {k \in DOMAIN blobs :
        \E name \in {NameOf(Below(f)) : f \in DiscoveredFiles(archive[r])} :
            k = OwnKey(dataset_id[r], name)}

C16_OneDocumentAndBlobPerFile ==
    \A r \in Runs :
        (/\ pc[r] = "returned"
         /\ Did(r, "insert_one")
         /\ \A i \in DOMAIN uploads[r] : uploads[r][i].stored)
        => /\ \A i, j \in DOMAIN ImagesOf(r) :
                  i # j => ImagesOf(r)[i].filename # ImagesOf(r)[j].filename
           /\ Len(ImagesOf(r)) = Cardinality(DiscoveredFiles(archive[r]))
           /\ Cardinality(BlobKeysOf(r)) = Cardinality(DiscoveredFiles(archive[r]))

(***************************************************************************)
(* C17.  A failure while reading an existing label file (the path cannot   *)
(* be opened, or its bytes cannot be decoded as text) is absorbed like a   *)
(* malformed line: it never escapes the annotation step, the enclosing     *)
(* image is still recorded, and the job does not end failed because of it. *)
(***************************************************************************)
C17_LabelReadFailuresAbsorbed ==
    \A r \in Runs :
        /\ exc[r].where # "labels"
        /\ Len(image_docs[r]) = Len(uploads[r])
        /\ (Ended(r) /\ Did(r, "insert_one") /\ StatusOf(r) = "failed")
           => exc[r].type \notin {"UnicodeDecodeError", "IsADirectoryError"}

(***************************************************************************)
(* C18.  A job triggered through handler(event, context) with an event for *)
(* archive key K leaves the document store and the blob store in the same  *)
(* final state, with the same terminal status, as the local invocation     *)
(* process_dataset(K, last path segment of K): from either entry point the *)
(* job has run with the last segment of K as its filename and, once it has *)
(* ended, the datasets document of K's dataset_id is ready or failed.      *)
(***************************************************************************)
C18_EntryPointsAgree ==
    \A r \in Runs :
        (Ended(r) /\ HasDatasetId(object_key[r])) =>
            /\ original_filename[r] = LastSegment(object_key[r])
            /\ Tried(r, "insert_one")
            /\ StatusOf(r) \in {"ready", "failed"}

(***************************************************************************)
(* C19.  A datasets document that an earlier run brought to status ready   *)
(* is never changed by a later or concurrent run for the same dataset_id:  *)
(* when the later run's begin() fails on the duplicate-id conflict, no     *)
(* step of that run changes the document (it keeps status ready and its    *)
(* class, split and error fields) or the images documents.                 *)
(***************************************************************************)
\* The run's begin() failed on the duplicate id and found the document ready.
LostToReady(r) ==
    /\ exc[r].type = "DuplicateKeyError"
    /\ exc[r].where = "begin"
    /\ dataset_id[r] \in DOMAIN datasets
    /\ datasets[dataset_id[r]].status = "ready"

C19_ReadyDocumentKept ==
    [][\A r \in Runs :
          (LostToReady(r) /\ pc'[r] # pc[r])
          => /\ dataset_id[r] \in DOMAIN datasets'
             /\ datasets'[dataset_id[r]] = datasets[dataset_id[r]]
             /\ images' = images]_vars

====
